---- MODULE Spec2Model ----
(***************************************************************************)
(* Model of src/lib/summarize.ts (summarize-hub): the module-level model    *)
(* session (chat, isInitializing, worker), initializeLLM, cleanup,          *)
(* chunkText and summarizeArticle; and of the Process Articles button of    *)
(* src/app/components/ArticleGrid.tsx, which calls summarizeArticle row by  *)
(* row.                                                                     *)
(*                                                                          *)
(* Four specifications share the variables:                                 *)
(*    Spec       calls of summarizeArticle, initializeLLM and cleanup       *)
(*    SpecChunk  chunkText applied to one text of a bounded set             *)
(*    SpecBatch  clicks on the button; summarizeArticle is what the runs    *)
(*               await, returning a result or throwing                      *)
(*    SpecLive   one click, each row's call carried out through the         *)
(*               session, with fairness of the steps after a settled await  *)
(* In the first three the variables of the other two keep their first       *)
(* value.                                                                   *)
(*                                                                          *)
(* JavaScript runs each function to its next await without interruption,    *)
(* so every action below is one such run: from a call or from the           *)
(* settlement of the awaited promise up to the next await, return or throw. *)
(*                                                                          *)
(* A text is kept run-length encoded: a sequence of runs [c, n], n >= 1     *)
(* characters of class c, where the classes are the only distinctions the   *)
(* code makes between characters:                                           *)
(*    "t"  a sentence terminator  . ! ?   (the regular expression)          *)
(*    "s"  white space                    (String.prototype.trim)           *)
(*    "w"  any other character                                              *)
(* Adjacent runs have different classes.  Lengths are therefore the real    *)
(* lengths (30,000 and 10,000 are the program's constants).                 *)
(***************************************************************************)
EXTENDS Integers, Sequences, FiniteSets, TLC

\* ------------------------------------------------------------------ bounds
\* calls of the module's exported functions made in one behaviour
MaxCalls == 3
\* calls that may be in progress (awaiting) at the same time
MaxConcurrent == 2
\* runs (maximal blocks of one character class) in a text given to chunkText
MaxRuns == 5
\* clicks on the Process Articles button in one behaviour
MaxClicks == 2
\* rows of the grid
MaxRows == 2

\* ------------------------------------------------------- program constants
MAX_ARTICLE_LENGTH == 30000
DEFAULT_MAX_CHUNK_SIZE == 10000

\* null (chat, worker, llm) and "no worker yet"
NULL == 0

\* --------------------------------------------------------------- texts
Run(c, n) == [c |-> c, n |-> n]

RECURSIVE TextLen(_)
\* text.length
TextLen(t) == IF t = <<>> THEN 0 ELSE Head(t).n + TextLen(Tail(t))

\* a + b on strings (adjacent runs of one class merge)
Concat(a, b) ==
    IF a = <<>> THEN b
    ELSE IF b = <<>> THEN a
    ELSE IF a[Len(a)].c = b[1].c
         THEN SubSeq(a, 1, Len(a) - 1)
              \o <<Run(b[1].c, a[Len(a)].n + b[1].n)>>
              \o Tail(b)
         ELSE a \o b

\* String.prototype.trim: white space removed at both ends
Trim(t) ==
    LET lo == IF t # <<>> /\ t[1].c = "s" THEN 2 ELSE 1
        hi == IF t # <<>> /\ t[Len(t)].c = "s" THEN Len(t) - 1 ELSE Len(t)
    IN  SubSeq(t, lo, hi)

RECURSIVE MatchSentences(_, _, _)
\* text.match(/[^.!?]+[.!?]+/g): every maximal block of non-terminators that
\* is followed by terminators, together with all of those terminators.
\* Terminators at the start of the text and a last block that no terminator
\* follows match nothing.  body is the block collected so far.
MatchSentences(t, i, body) ==
    IF i > Len(t) THEN <<>>
    ELSE IF t[i].c = "t"
         THEN IF body = <<>>
              THEN MatchSentences(t, i + 1, <<>>)
              ELSE <<Append(body, t[i])>> \o MatchSentences(t, i + 1, <<>>)
         ELSE MatchSentences(t, i + 1, Append(body, t[i]))

\* text.match(...) || [text]   (match returns null when nothing matches)
Sentences(t) ==
    LET m == MatchSentences(t, 1, <<>>) IN IF m = <<>> THEN <<t>> ELSE m

\* if (currentChunk) chunks.push(currentChunk.trim())
PushChunk(chunks, currentChunk) ==
    IF currentChunk # <<>> THEN Append(chunks, Trim(currentChunk)) ELSE chunks

\* every sentence taken into the current chunk
FitsAlways(currentChunk, sentence, maxChunkSize) == TRUE

\* no sentence taken into a chunk that has one
FitsNever(currentChunk, sentence, maxChunkSize) == currentChunk = <<>>

\* (currentChunk + sentence).length <= maxChunkSize
Fits(currentChunk, sentence, maxChunkSize) ==
    TextLen(Concat(currentChunk, sentence)) <= maxChunkSize

RECURSIVE ChunkLoop(_, _, _, _, _)
\* the for loop of chunkText and the push that follows it
ChunkLoop(sentences, i, currentChunk, chunks, maxChunkSize) ==
    IF i > Len(sentences) THEN PushChunk(chunks, currentChunk)
    ELSE IF Fits(currentChunk, sentences[i], maxChunkSize)
         THEN ChunkLoop(sentences, i + 1, Concat(currentChunk, sentences[i]),
                        chunks, maxChunkSize)
         ELSE ChunkLoop(sentences, i + 1, sentences[i],
                        PushChunk(chunks, currentChunk), maxChunkSize)

\* chunkText with < in place of <= in its first test
chunkTextStrict(text, maxChunkSize) ==
    IF TextLen(text) < maxChunkSize THEN <<text>>
    ELSE ChunkLoop(Sentences(text), 1, <<>>, <<>>, maxChunkSize)

\* chunkText(text, maxChunkSize)
chunkText(text, maxChunkSize) ==
    IF TextLen(text) <= maxChunkSize THEN <<text>>
    ELSE ChunkLoop(Sentences(text), 1, <<>>, <<>>, maxChunkSize)

\* ------------------------------------------------------------ articles
\* "Short text."
ShortArticle == <<Run("w", 5), Run("s", 1), Run("w", 4), Run("t", 1)>>
\* 30,000 characters: three sentences of 10,000 characters
LimitArticle ==
    <<Run("w", 9999), Run("t", 1), Run("s", 1), Run("w", 9998), Run("t", 1),
      Run("s", 1), Run("w", 9998), Run("t", 1)>>
\* 30,001 characters
LongArticle == LimitArticle \o <<Run("s", 1)>>

\* the contents a caller may pass to summarizeArticle
Articles == {ShortArticle, LimitArticle, LongArticle}

\* the texts chunkText is tried on: up to MaxRuns runs of the three classes,
\* of lengths that put sentences and texts below, at and above 10,000
RunLengths == {1, 4999, 10001}
Runs == {Run(c, n) : c \in {"w", "s", "t"}, n \in RunLengths}
Texts ==
    UNION {{t \in [1 .. n -> Runs] : \A k \in 1 .. n - 1 : t[k].c # t[k + 1].c}
              : n \in 0 .. MaxRuns}


\* ------------------------------------------------------------- state
VARIABLES
    chat,            \* let chat: the session handle, NULL or the worker it runs on
    isInitializing,  \* let isInitializing
    worker,          \* let worker: NULL or the worker's identity
    alive,           \* the workers created and not yet terminated
    created,         \* number of workers created so far (identities 1..created)
    callsMade,       \* calls of exported functions so far
    proc,            \* per call, in the order the calls are made: its frame
    disturbed,       \* cleanup() or the catch block of initializeLLM has run
    \* chunkText called on its own
    text,            \* the argument text
    chunkPc,         \* "idle" before the call, "returned" after it
    chunks,          \* the array returned
    \* ArticleGrid: the Process Articles button
    isSummarizing,   \* useState(false)
    isProcessed,     \* useState(false)
    gridData,        \* gridRef.current.data: the rows of the grid
    clicksMade,      \* clicks on the button so far
    handler          \* per click, in the order of the clicks: its onClick run

session == <<chat, isInitializing, worker, alive, created, callsMade, proc,
             disturbed>>
chunker == <<text, chunkPc, chunks>>
ui == <<isSummarizing, isProcessed, gridData, clicksMade, handler>>
vars == <<session, chunker, ui>>
shared == <<chat, isInitializing, worker, alive>>

\* the calls, numbered in the order they are made
CallIds == 1 .. MaxCalls

\* a call that has ended: its promise is settled
Ended == {"returned", "thrown"}

\* the frame of a call that has just been entered
Frame(op, content) ==
    [pc |-> "idle", op |-> op, content |-> content,
     llm |-> NULL,        \* what initializeLLM returned to this call
     myInit |-> NULL,     \* the worker this call's own initialization created
     waitedOn |-> NULL,   \* the initialization this call polled for
     sessionMade |-> NULL, \* the session that initialization gave its caller
     status |-> <<>>,     \* states passed to onLoadingUpdate, in order
                          \* (a run of loading statuses is kept as one)
     progress |-> <<>>,   \* (current, total) passed to onSummarizationProgress
     calls |-> <<>>,      \* llm.chat.completions.create calls issued, in order
     chunks |-> <<>>,     \* const chunks = chunkText(content)
     i |-> 0,             \* summaries.length
     result |-> <<>>,     \* the value returned, <<r>>, or <<>>
     trace |-> <<>>,      \* the phases of summarizeArticle entered, in order
     summaries |-> <<>>,  \* const summaries: string[]
     finalSummary |-> <<>>, \* let finalSummary = ''
     inputs |-> <<>>,     \* the text put into the prompt of each call issued
     failure |-> <<"none", "none">>]  \* the failure this call met: where, kind

NoContent == <<>>

\* ------------------------------------------------------ results, statuses
TooLongResult ==
    [summary |-> <<"Error: ", "Article is too long">>,
     tags |-> <<"Error: ", "Article too long">>]
ContextResult ==
    [summary |-> <<"Error: ", "Article is too long for processing. Please try with a shorter article.">>,
     tags |-> <<"Error: ", "Context window exceeded">>]
\* { summary: finalSummary, tags }: texts the engine produced
SummaryResult == [summary |-> <<"finalSummary">>, tags |-> <<"tags">>]

\* the length gate with >= in place of >
TooLongInclusive(content) == TextLen(content) >= MAX_ARTICLE_LENGTH

\* content.length > MAX_ARTICLE_LENGTH
TooLong(content) == TextLen(content) > MAX_ARTICLE_LENGTH

\* chunks.length
NumChunks(content) == Len(chunkText(content, DEFAULT_MAX_CHUNK_SIZE))

\* chunks.length as the total
ProgressTotalChunks(n) == n

\* chunks.length * 2, the total passed to onSummarizationProgress
ProgressTotal(n) == n * 2

\* the last progress value counted on from the loop (N + 1) instead of 2N
FinalProgressNext(n) == n + 1

\* the current value passed to onSummarizationProgress before the tag call
FinalProgress(n) == n * 2

\* the combine step left out
NeedsCombineNever(numSummaries) == FALSE

\* the combine step taken for a single summary too
NeedsCombineAlways(numSummaries) == numSummaries >= 1

\* summaries.length > 1
NeedsCombine(numSummaries) == numSummaries > 1

\* the capacity error not recognised
IsCapacityErrorNever(kind) == FALSE

\* error.message?.includes('ContextWindowSizeExceededError')
IsCapacityError(kind) == kind = "capacity"

\* the kinds of failure of an inference call the code tells apart
ErrorKinds == {"capacity", "other"}

\* the call enters a phase of summarizeArticle
Enter(f, phase) == [f EXCEPT !.trace = Append(@, phase)]

\* the phase an inference call belongs to
PhaseOf(kind) ==
    IF kind = "chunk" THEN "PER_CHUNK_SUMMARY"
    ELSE IF kind = "combine" THEN "COMBINE"
    ELSE "TAG_EXTRACTION"

\* onLoadingUpdate?.({ state, ... }): the state joins the call's record
Emit(f, state) ==
    IF state = "loading" /\ f.status # <<>> /\ f.status[Len(f.status)] = "loading"
    THEN f
    ELSE [f EXCEPT !.status = Append(@, state)]
Progress(f, current, total) ==
    [f EXCEPT !.progress = Append(@, <<current, total>>)]
\* choices[0].message.content of the engine's answers: texts the program
\* does not look into, here with white space around them and told apart by
\* their lengths
ChunkResponse(k) == <<Run("s", 1), Run("w", k), Run("t", 1), Run("s", 1)>>
CombineResponse == <<Run("s", 1), Run("w", 10), Run("t", 1), Run("s", 1)>>

RECURSIVE Join(_)
\* summaries.join(' ')
Join(ss) ==
    IF ss = <<>> THEN <<>>
    ELSE IF Len(ss) = 1 THEN ss[1]
    ELSE Concat(Concat(ss[1], <<Run("s", 1)>>), Join(Tail(ss)))

\* the tag prompt built from the article itself
PromptTextOfArticle(f, kind, k) ==
    IF kind = "chunk" THEN f.chunks[k]
    ELSE IF kind = "combine" THEN Join(f.summaries)
    ELSE f.content

\* the text put into the prompt: chunks[i], combinedSummary, finalSummary
PromptText(f, kind, k) ==
    IF kind = "chunk" THEN f.chunks[k]
    ELSE IF kind = "combine" THEN Join(f.summaries)
    ELSE f.finalSummary

\* await llm.chat.completions.create(...): a TypeError when llm is null
Issue(f, kind, k) ==
    LET g == Enter(f, PhaseOf(kind))
    IN  IF f.llm = NULL
        THEN [g EXCEPT !.pc = "caught", !.failure = <<"null-llm", "other">>]
        ELSE [g EXCEPT !.calls = Append(@, [kind |-> kind, i |-> k]),
                       !.inputs = Append(@, PromptText(f, kind, k)),
                       !.pc = kind]

\* summarizeArticle from "Generate tags from the final summary" to the await
\* of the tag call
StartTags(f) ==
    LET n == Len(f.chunks)
    IN  Issue(Progress(f, FinalProgress(n), ProgressTotal(n)), "tags", 0)

\* summarizeArticle from the head of the for loop, with f.i summaries made,
\* to its next await
Advance(f) ==
    LET n == Len(f.chunks)
    IN  IF f.i < n
        THEN Issue(Progress(f, f.i + 1, ProgressTotal(n)), "chunk", f.i + 1)
        ELSE IF NeedsCombine(f.i) THEN Issue(f, "combine", 0)
        ELSE StartTags([f EXCEPT !.finalSummary = f.summaries[1]])

\* what follows `await initializeLLM(...)` once it has returned handle
AfterAcquire(f, handle) ==
    LET g == [f EXCEPT !.llm = handle]
    IN  IF f.op = "acquire" THEN [g EXCEPT !.pc = "returned"]
        ELSE CHOOSE r \in {Advance([h EXCEPT !.chunks = cs]) :
                               h \in {Enter(Enter(g, "SESSION_READY"),
                                             "CHUNKING")},
                               cs \in {chunkText(f.content,
                                                 DEFAULT_MAX_CHUNK_SIZE)}} :
                 TRUE

\* the outer catch reporting the error before and after cleanup()
ThrownTwice(f) ==
    [Enter(Emit(Emit(f, "error"), "error"), "ERROR") EXCEPT !.pc = "thrown"]

\* the outer catch of summarizeArticle after cleanup(): the status, the throw
Thrown(f) == [Enter(Emit(f, "error"), "ERROR") EXCEPT !.pc = "thrown"]

\* cleanup() dropping the worker without terminating it
cleanupNoTerminate ==
    /\ alive' = alive
    /\ worker' = NULL
    /\ chat' = NULL
    /\ isInitializing' = FALSE
    /\ disturbed' = TRUE

\* cleanup() leaving the isInitializing flag alone
cleanupKeepsFlag ==
    /\ alive' = alive \ {worker}
    /\ worker' = NULL
    /\ chat' = NULL
    /\ isInitializing' = isInitializing
    /\ disturbed' = TRUE

\* cleanup() without its `chat = null`
cleanupKeepsChat ==
    /\ alive' = alive \ {worker}
    /\ worker' = NULL
    /\ chat' = chat
    /\ isInitializing' = FALSE
    /\ disturbed' = TRUE

\* cleanup()
cleanup ==
    /\ alive' = alive \ {worker}
    /\ worker' = NULL
    /\ chat' = NULL
    /\ isInitializing' = FALSE
    /\ disturbed' = TRUE

\* the catch block without its cleanup
InitCatchLeak == UNCHANGED <<alive, worker, chat>> /\ disturbed' = TRUE

\* the catch block of initializeLLM: if (worker) { terminate; null; null }
InitCatch ==
    /\ alive' = alive \ {worker}
    /\ worker' = NULL
    /\ chat' = IF worker # NULL THEN NULL ELSE chat
    /\ disturbed' = TRUE

\* initializeLLM without its finally block
InitFinallyMissing == isInitializing' = isInitializing

\* the finally block of initializeLLM
InitFinally == isInitializing' = FALSE

\* the outer catch throwing without cleanup()
SettleNoCleanup(p, g) ==
    /\ UNCHANGED <<shared, disturbed>>
    /\ proc' = [proc EXCEPT ![p] = IF g.pc = "caught" THEN Thrown(g) ELSE g]

\* a run of summarizeArticle that ends in frame g at an await, at a return,
\* or (g.pc = "caught") in the outer catch, which runs cleanup() at once
Settle(p, g) ==
    \E h \in {g} :
        IF h.pc = "caught"
        THEN /\ cleanup
             /\ proc' = [proc EXCEPT ![p] = Thrown(h)]
        ELSE /\ UNCHANGED <<shared, disturbed>>
             /\ proc' = [proc EXCEPT ![p] = h]


\* ----------------------------------------------------------- actions
\* chunkText is not called on its own
NoChunkCall == text = <<>> /\ chunkPc = "idle" /\ chunks = <<>>

\* no grid is mounted
NoGrid ==
    /\ isSummarizing = FALSE
    /\ isProcessed = FALSE
    /\ gridData = <<>>
    /\ clicksMade = 0
    /\ handler = <<>>

\* the module is loaded: let chat = null, isInitializing = false,
\* worker = null; no call has been made
Loaded ==
    /\ chat = NULL
    /\ isInitializing = FALSE
    /\ worker = NULL
    /\ alive = {}
    /\ created = 0
    /\ callsMade = 0
    /\ proc = [p \in CallIds |-> Frame("none", NoContent)]
    /\ disturbed = FALSE

Init ==
    /\ Loaded
    /\ NoChunkCall
    /\ NoGrid

\* no ended call is still on record.  The record of an ended call (its
\* frame) is history only: it is dropped before the program goes on, so the
\* program's behaviours are all kept and every ended call is seen as it ends.
Quiet == \A q \in CallIds : proc[q].pc \notin Ended

\* a new call may be entered
MayCall(p) ==
    /\ Quiet
    /\ p = callsMade + 1
    /\ Cardinality({q \in CallIds : proc[q].pc \notin {"idle", "gone"}})
           < MaxConcurrent

\* the record of an ended call is dropped
Forget(p) ==
    /\ proc[p].pc \in Ended
    /\ proc' = [proc EXCEPT ![p] = [Frame("none", NoContent) EXCEPT
                                        !.pc = "gone"]]
    /\ UNCHANGED <<shared, created, callsMade, disturbed>>
    /\ UNCHANGED <<chunker, ui>>

\* initializeLLM without its first line (if (chat) return chat)
AcquireAlwaysInit(p, f) ==
    IF isInitializing
    THEN /\ proc' = [proc EXCEPT ![p] =
                        [f EXCEPT !.pc = "waiting", !.waitedOn = created]]
         /\ UNCHANGED <<shared, created, disturbed>>
    ELSE /\ isInitializing' = TRUE
         /\ created' = created + 1
         /\ worker' = created + 1
         /\ alive' = (alive \ {worker}) \cup {created + 1}
         /\ chat' = IF worker # NULL THEN NULL ELSE chat
         /\ UNCHANGED disturbed
         /\ proc' = [proc EXCEPT ![p] =
                        [Emit(f, "loading") EXCEPT !.pc = "creating",
                                                   !.myInit = created + 1]]

\* initializeLLM from its first line to its first await or return, entered
\* with frame f; a caller inside summarizeArticle goes on after a return
Acquire(p, f) ==
    IF chat # NULL
    THEN \* if (chat) return chat
         /\ Settle(p, AfterAcquire(f, chat))
         /\ UNCHANGED created
    ELSE IF isInitializing
    THEN \* while (isInitializing) await new Promise(setTimeout 100)
         /\ proc' = [proc EXCEPT ![p] =
                        [f EXCEPT !.pc = "waiting", !.waitedOn = created]]
         /\ UNCHANGED <<shared, created, disturbed>>
    ELSE \* isInitializing = true; the first status; the old worker is
         \* terminated; new Worker(...); await CreateWebWorkerMLCEngine(...)
         /\ isInitializing' = TRUE
         /\ created' = created + 1
         /\ worker' = created + 1
         /\ alive' = (alive \ {worker}) \cup {created + 1}
         /\ chat' = IF worker # NULL THEN NULL ELSE chat
         /\ UNCHANGED disturbed
         /\ proc' = [proc EXCEPT ![p] =
                        [Emit(f, "loading") EXCEPT !.pc = "creating",
                                                   !.myInit = created + 1]]

\* summarizeArticle(content, callbacks) up to its first await or return
CallSummarize(p, content) ==
    /\ MayCall(p)
    /\ callsMade' = callsMade + 1
    /\ UNCHANGED <<chunker, ui>>
    /\ LET f == Enter(Enter(Frame("summarize", content), "START"),
                      "LENGTH_CHECK")
       IN  IF TooLong(content)
           THEN /\ proc' = [proc EXCEPT ![p] =
                    [Enter(Emit(f, "error"), "REJECT") EXCEPT
                        !.pc = "returned",
                        !.result = <<TooLongResult>>,
                        !.failure = <<"gate", "too-long">>]]
                /\ UNCHANGED <<shared, created, disturbed>>
           ELSE Acquire(p, f)

\* initializeLLM(onLoadingUpdate) called directly
CallAcquire(p) ==
    /\ MayCall(p)
    /\ callsMade' = callsMade + 1
    /\ Acquire(p, Frame("acquire", NoContent))
    /\ UNCHANGED <<chunker, ui>>

\* cleanup() called directly (it has no await)
CallCleanup(p) ==
    /\ MayCall(p)
    /\ callsMade' = callsMade + 1
    /\ cleanup
    /\ proc' = [proc EXCEPT ![p] =
                   [Frame("cleanup", NoContent) EXCEPT !.pc = "returned"]]
    /\ UNCHANGED created
    /\ UNCHANGED <<chunker, ui>>

\* the engine reports progress: progressCallback emits a loading status.
\* A terminated worker sends nothing.
InitReport(p) ==
    /\ Quiet
    /\ proc[p].pc = "creating"
    /\ proc[p].myInit \in alive
    /\ proc' = [proc EXCEPT ![p] = Emit(@, "loading")]
    /\ UNCHANGED <<shared, created, callsMade, disturbed>>
    /\ UNCHANGED <<chunker, ui>>

\* CreateWebWorkerMLCEngine resolves: chat is assigned, the ready status, the
\* finally block, return chat.  The engine answers from its worker, so a
\* terminated worker never resolves.
InitResolve(p) ==
    /\ Quiet
    /\ proc[p].pc = "creating"
    /\ proc[p].myInit \in alive
    /\ chat' = proc[p].myInit
    /\ InitFinally
    /\ UNCHANGED <<worker, alive, created, callsMade, disturbed>>
    /\ UNCHANGED <<chunker, ui>>
    /\ proc' = [q \in CallIds |->
           IF q = p
           THEN AfterAcquire(Emit(proc[p], "ready"), proc[p].myInit)
           ELSE IF proc[q].pc = "waiting" /\ proc[q].waitedOn = proc[p].myInit
                THEN [proc[q] EXCEPT !.sessionMade = proc[p].myInit]
                ELSE proc[q]]

\* CreateWebWorkerMLCEngine rejects: the catch block, the error status, the
\* finally block, throw.  summarizeArticle's catch runs in a later job.
InitReject(p) ==
    /\ Quiet
    /\ proc[p].pc = "creating"
    /\ InitCatch
    /\ InitFinally
    /\ proc' = [proc EXCEPT ![p] =
                   [Emit(@, "error") EXCEPT
                       !.pc = IF proc[p].op = "summarize"
                              THEN "catching" ELSE "thrown",
                       !.failure = <<"init", "other">>]]
    /\ UNCHANGED <<created, callsMade>>
    /\ UNCHANGED <<chunker, ui>>

\* the catch block of summarizeArticle after initializeLLM threw
CatchInitFailure(p) ==
    /\ Quiet
    /\ proc[p].pc = "catching"
    /\ cleanup
    /\ proc' = [proc EXCEPT ![p] = Thrown(@)]
    /\ UNCHANGED <<created, callsMade>>
    /\ UNCHANGED <<chunker, ui>>

\* a polling caller that, finding no session when it wakes, goes through
\* initializeLLM again
WaiterWakeRetries(p) ==
    /\ Quiet
    /\ proc[p].pc = "waiting"
    /\ ~isInitializing
    /\ IF chat = NULL
       THEN Acquire(p, proc[p])
       ELSE Settle(p, AfterAcquire(proc[p], chat)) /\ UNCHANGED created
    /\ UNCHANGED callsMade
    /\ UNCHANGED <<chunker, ui>>

\* a polling caller wakes with isInitializing false: return chat
WaiterWake(p) ==
    /\ Quiet
    /\ proc[p].pc = "waiting"
    /\ ~isInitializing
    /\ Settle(p, AfterAcquire(proc[p], chat))
    /\ UNCHANGED <<created, callsMade>>
    /\ UNCHANGED <<chunker, ui>>

\* the call for a chunk resolves: summaries.push(...), the loop goes on
ChunkResolve(p) ==
    /\ Quiet
    /\ proc[p].pc = "chunk"
    /\ proc[p].llm \in alive
    /\ Settle(p, Advance([proc[p] EXCEPT
                             !.summaries =
                                 Append(@, Trim(ChunkResponse(proc[p].i + 1))),
                             !.i = @ + 1]))
    /\ UNCHANGED <<created, callsMade>>
    /\ UNCHANGED <<chunker, ui>>

\* the inner catch going on with the next chunk after a capacity error
ChunkRejectContinues(p, kind) ==
    /\ Quiet
    /\ proc[p].pc = "chunk"
    /\ LET f == [proc[p] EXCEPT !.failure = <<"chunk", kind>>]
       IN  IF IsCapacityError(kind)
           THEN Settle(p, Advance([Enter(Emit(f, "error"), "ERROR") EXCEPT
                                      !.summaries = Append(@, <<>>),
                                      !.i = @ + 1]))
           ELSE Settle(p, [f EXCEPT !.pc = "caught"])
    /\ UNCHANGED <<created, callsMade>>
    /\ UNCHANGED <<chunker, ui>>

\* the inner catch tearing the session down before it returns the
\* error-encoded result
ChunkRejectCleansUp(p, kind) ==
    /\ Quiet
    /\ proc[p].pc = "chunk"
    /\ LET f == [proc[p] EXCEPT !.failure = <<"chunk", kind>>]
       IN  IF IsCapacityError(kind)
           THEN /\ cleanup
                /\ proc' = [proc EXCEPT ![p] =
                               [Enter(Emit(f, "error"), "ERROR") EXCEPT
                                   !.pc = "returned",
                                   !.result = <<ContextResult>>]]
           ELSE Settle(p, [f EXCEPT !.pc = "caught"])
    /\ UNCHANGED <<created, callsMade>>
    /\ UNCHANGED <<chunker, ui>>

\* the call for a chunk rejects: the inner catch
ChunkReject(p, kind) ==
    /\ Quiet
    /\ proc[p].pc = "chunk"
    /\ LET f == [proc[p] EXCEPT !.failure = <<"chunk", kind>>]
       IN  IF IsCapacityError(kind)
           THEN Settle(p, [Enter(Emit(f, "error"), "ERROR") EXCEPT
                              !.pc = "returned", !.result = <<ContextResult>>])
           ELSE Settle(p, [f EXCEPT !.pc = "caught"])
    /\ UNCHANGED <<created, callsMade>>
    /\ UNCHANGED <<chunker, ui>>

\* the combine call resolves: finalSummary, then the tag call
CombineResolve(p) ==
    /\ Quiet
    /\ proc[p].pc = "combine"
    /\ proc[p].llm \in alive
    /\ Settle(p, StartTags([proc[p] EXCEPT
                               !.finalSummary = Trim(CombineResponse)]))
    /\ UNCHANGED <<created, callsMade>>
    /\ UNCHANGED <<chunker, ui>>

\* the combine call treated as the chunk calls are: an error-encoded result
\* for the capacity error
CombineRejectSoft(p, kind) ==
    /\ Quiet
    /\ proc[p].pc = "combine"
    /\ LET f == [proc[p] EXCEPT !.failure = <<"combine", kind>>]
       IN  IF IsCapacityError(kind)
           THEN Settle(p, [Enter(Emit(f, "error"), "ERROR") EXCEPT
                              !.pc = "returned", !.result = <<ContextResult>>])
           ELSE Settle(p, [f EXCEPT !.pc = "caught"])
    /\ UNCHANGED <<created, callsMade>>
    /\ UNCHANGED <<chunker, ui>>

\* the combine call rejects: the outer catch
CombineReject(p, kind) ==
    /\ Quiet
    /\ proc[p].pc = "combine"
    /\ Settle(p, [proc[p] EXCEPT !.pc = "caught",
                                 !.failure = <<"combine", kind>>])
    /\ UNCHANGED <<created, callsMade>>
    /\ UNCHANGED <<chunker, ui>>

\* the tag call resolves: return { summary: finalSummary, tags }
TagsResolve(p) ==
    /\ Quiet
    /\ proc[p].pc = "tags"
    /\ proc[p].llm \in alive
    /\ Settle(p, [Enter(proc[p], "DONE") EXCEPT
                     !.pc = "returned", !.result = <<SummaryResult>>])
    /\ UNCHANGED <<created, callsMade>>
    /\ UNCHANGED <<chunker, ui>>

\* the tag call rejects: the outer catch
TagsReject(p, kind) ==
    /\ Quiet
    /\ proc[p].pc = "tags"
    /\ Settle(p, [proc[p] EXCEPT !.pc = "caught",
                                 !.failure = <<"tags", kind>>])
    /\ UNCHANGED <<created, callsMade>>
    /\ UNCHANGED <<chunker, ui>>

Next ==
    \E p \in CallIds :
        \/ \E content \in Articles : CallSummarize(p, content)
        \/ CallAcquire(p)
        \/ CallCleanup(p)
        \/ InitReport(p)
        \/ InitResolve(p)
        \/ InitReject(p)
        \/ CatchInitFailure(p)
        \/ WaiterWake(p)
        \/ ChunkResolve(p)
        \/ \E kind \in ErrorKinds : ChunkReject(p, kind)
        \/ CombineResolve(p)
        \/ \E kind \in ErrorKinds : CombineReject(p, kind)
        \/ TagsResolve(p)
        \/ \E kind \in ErrorKinds : TagsReject(p, kind)
        \/ Forget(p)

Spec == Init /\ [][Next]_vars


\* ------------------------------------------------- chunkText on its own
InitChunk ==
    /\ Loaded
    /\ NoGrid
    /\ text \in Texts
    /\ chunkPc = "idle"
    /\ chunks = <<>>

\* chunkText(text): maxChunkSize takes its default
CallChunkText ==
    /\ chunkPc = "idle"
    /\ chunks' = chunkText(text, DEFAULT_MAX_CHUNK_SIZE)
    /\ chunkPc' = "returned"
    /\ UNCHANGED <<text, session, ui>>

NextChunk == CallChunkText

SpecChunk == InitChunk /\ [][NextChunk]_vars


\* ------------------------------- ArticleGrid: the Process Articles button
ClickIds == 1 .. MaxClicks

\* a row of the grid as loaded: 'Article Content', no Summary, no Tags
Row(content) == [content |-> content, Summary |-> <<>>, Tags |-> <<>>]

\* the grids a user may have loaded
Grids ==
    UNION {[1 .. n -> {Row(NoContent), Row(ShortArticle)}] : n \in 1 .. MaxRows}

\* what summarizeArticle may return: a summary or an error-encoded result
\* (the batch stores every result alike)
Results == {SummaryResult, ContextResult}

\* "Error: Processing failed"
ProcessingFailed == <<"Error: ", "Processing failed">>

\* an onClick run that has not started
HandlerIdle ==
    [pc |-> "idle",
     i |-> 0,            \* the row of the for loop (1-based)
     data |-> <<>>,      \* const data = [...gridRef.current.data]
     errorCount |-> 0,   \* let errorCount
     calls |-> <<>>,     \* the rows passed to summarizeArticle, in order
     threw |-> {}]       \* the rows whose summarizeArticle call threw

\* the for loop from the end of row hr.i to the next await of
\* summarizeArticle, or to its end: rows without content are skipped
ToNextRow(hr) ==
    LET rest == {r \in hr.i + 1 .. Len(hr.data) : hr.data[r].content # NoContent}
    IN  IF rest = {}
        THEN [hr EXCEPT !.pc = "ended", !.i = Len(hr.data) + 1]
        ELSE LET r == CHOOSE x \in rest : \A y \in rest : x <= y
             IN  [hr EXCEPT !.pc = "summarizing", !.i = r,
                            !.calls = Append(@, r)]

\* the try block counting an error-encoded result as an error
StoreResultCounting(hr, result) ==
    [hr EXCEPT !.data[hr.i] = [@ EXCEPT !.Summary = result.summary,
                                        !.Tags = result.tags],
               !.errorCount = IF result = SummaryResult THEN @ ELSE @ + 1]

\* the try block of the row after summarizeArticle returned result
StoreResult(hr, result) ==
    [hr EXCEPT !.data[hr.i] = [@ EXCEPT !.Summary = result.summary,
                                        !.Tags = result.tags]]

\* the catch block of the row leaving the loop (break for continue)
CatchRowBreaks(hr) ==
    [hr EXCEPT !.errorCount = @ + 1,
               !.data[hr.i] = [@ EXCEPT !.Summary = ProcessingFailed,
                                        !.Tags = ProcessingFailed],
               !.threw = @ \cup {hr.i},
               !.i = Len(hr.data)]

\* the catch block of the row: errorCount++, the row marked, continue
CatchRow(hr) ==
    [hr EXCEPT !.errorCount = @ + 1,
               !.data[hr.i] = [@ EXCEPT !.Summary = ProcessingFailed,
                                        !.Tags = ProcessingFailed],
               !.threw = @ \cup {hr.i}]

\* the run of click h goes on from the end of a row (frame hr) to its next
\* await; past the last row: setIsProcessed(true), and the finally block,
\* setIsSummarizing(false)
Resume(h, hr, summarizing) ==
    LET g == ToNextRow(hr)
    IN  /\ handler' = [handler EXCEPT ![h] = g]
        /\ isSummarizing' = IF g.pc = "ended" THEN FALSE ELSE summarizing
        /\ isProcessed' = IF g.pc = "ended" THEN TRUE ELSE isProcessed

InitBatch ==
    /\ Loaded
    /\ NoChunkCall
    /\ isSummarizing = FALSE
    /\ isProcessed = FALSE
    /\ gridData \in Grids
    /\ clicksMade = 0
    /\ handler = [h \in ClickIds |-> HandlerIdle]

\* no ended onClick run is still on record: like the frame of an ended
\* call, the record of an ended run is dropped before the program goes on
NoneEnded == \A g \in ClickIds : handler[g].pc # "ended"

\* the record of an ended onClick run is dropped
ForgetHandler(h) ==
    /\ handler[h].pc = "ended"
    /\ handler' = [handler EXCEPT ![h] = [HandlerIdle EXCEPT !.pc = "gone"]]
    /\ UNCHANGED <<isSummarizing, isProcessed, gridData, clicksMade>>
    /\ UNCHANGED <<session, chunker>>

\* a click on the button, which is disabled while isSummarizing or
\* isProcessed: onClick up to `await checkWebGPUSupport()`
Click(h) ==
    /\ NoneEnded
    /\ h = clicksMade + 1
    /\ ~(isSummarizing \/ isProcessed)
    /\ clicksMade' = h
    /\ handler' = [handler EXCEPT ![h] =
           [@ EXCEPT !.pc = IF Len(gridData) = 0 THEN "ended" ELSE "checking"]]
    /\ UNCHANGED <<isSummarizing, isProcessed, gridData>>
    /\ UNCHANGED <<session, chunker>>

\* checkWebGPUSupport resolves: return when unsupported, else
\* setIsSummarizing(true), the copy of the rows, the loop up to its first await
CheckResolves(h, supported) ==
    /\ NoneEnded
    /\ handler[h].pc = "checking"
    /\ IF supported
       THEN Resume(h, [handler[h] EXCEPT !.data = gridData], TRUE)
       ELSE /\ handler' = [handler EXCEPT ![h] = [@ EXCEPT !.pc = "ended"]]
            /\ UNCHANGED <<isSummarizing, isProcessed>>
    /\ UNCHANGED <<gridData, clicksMade>>
    /\ UNCHANGED <<session, chunker>>

\* summarizeArticle returns: Summary and Tags of the row, the grid redrawn
\* from data, the loop goes on
CallReturns(h, result) ==
    /\ NoneEnded
    /\ handler[h].pc = "summarizing"
    /\ LET hr == StoreResult(handler[h], result)
       IN  /\ gridData' = hr.data
           /\ Resume(h, hr, isSummarizing)
    /\ UNCHANGED clicksMade
    /\ UNCHANGED <<session, chunker>>

\* summarizeArticle throws: the catch block of the row, the loop goes on
CallThrows(h) ==
    /\ NoneEnded
    /\ handler[h].pc = "summarizing"
    /\ LET hr == CatchRow(handler[h])
       IN  /\ gridData' = hr.data
           /\ Resume(h, hr, isSummarizing)
    /\ UNCHANGED clicksMade
    /\ UNCHANGED <<session, chunker>>

NextBatch ==
    \E h \in ClickIds :
        \/ Click(h)
        \/ \E supported \in BOOLEAN : CheckResolves(h, supported)
        \/ \E result \in Results : CallReturns(h, result)
        \/ CallThrows(h)
        \/ ForgetHandler(h)

SpecBatch == InitBatch /\ [][NextBatch]_vars

\* ---------------------------------------- a batch with its calls carried out
\* One click on Process Articles, and each row's summarizeArticle call run
\* through the session: the only caller is the batch, one call at a time.

\* the grids of the batch: rows of every content a caller may pass, or none
ArticleGrids ==
    UNION {[1 .. n -> {Row(content) : content \in Articles \cup {NoContent}}]
              : n \in 1 .. MaxRows}

InitLive ==
    /\ Loaded
    /\ NoChunkCall
    /\ isSummarizing = FALSE
    /\ isProcessed = FALSE
    /\ gridData \in ArticleGrids
    /\ clicksMade = 0
    /\ handler = [h \in ClickIds |-> HandlerIdle]

\* no call is on record
NoCall == \A q \in CallIds : proc[q].pc \in {"idle", "gone"}

\* the row's `await summarizeArticle(row['Article Content'], ...)`: the call
\* is entered
RowCall(h, p) ==
    /\ handler[h].pc = "summarizing"
    /\ NoCall
    /\ CallSummarize(p, handler[h].data[handler[h].i].content)

\* the frame of an ended call is dropped as its caller goes on
Dropped(p) ==
    /\ proc' = [proc EXCEPT ![p] = [Frame("none", NoContent) EXCEPT
                                        !.pc = "gone"]]
    /\ UNCHANGED <<shared, created, callsMade, disturbed>>

\* the row's call has returned: the try block, the loop goes on
RowReturns(h, p) ==
    /\ handler[h].pc = "summarizing"
    /\ proc[p].pc = "returned"
    /\ LET hr == StoreResult(handler[h], proc[p].result[1])
       IN  /\ gridData' = hr.data
           /\ Resume(h, hr, isSummarizing)
    /\ Dropped(p)
    /\ UNCHANGED clicksMade
    /\ UNCHANGED chunker

\* the row's call has thrown: the catch block, the loop goes on
RowThrows(h, p) ==
    /\ handler[h].pc = "summarizing"
    /\ proc[p].pc = "thrown"
    /\ LET hr == CatchRow(handler[h])
       IN  /\ gridData' = hr.data
           /\ Resume(h, hr, isSummarizing)
    /\ Dropped(p)
    /\ UNCHANGED clicksMade
    /\ UNCHANGED chunker

\* the steps the program takes once what it awaits has settled: a promise
\* of the engine or of checkWebGPUSupport resolves or rejects, and the
\* continuation that waits for it runs
Settles ==
    \E p \in CallIds :
        \/ RowCall(1, p)
        \/ InitResolve(p)
        \/ InitReject(p)
        \/ CatchInitFailure(p)
        \/ ChunkResolve(p)
        \/ \E kind \in ErrorKinds : ChunkReject(p, kind)
        \/ CombineResolve(p)
        \/ \E kind \in ErrorKinds : CombineReject(p, kind)
        \/ TagsResolve(p)
        \/ \E kind \in ErrorKinds : TagsReject(p, kind)
        \/ RowReturns(1, p)
        \/ RowThrows(1, p)
        \/ \E supported \in BOOLEAN : CheckResolves(1, supported)

NextLive ==
    \/ Click(1)
    \/ \E p \in CallIds : InitReport(p)
    \/ Settles

\* every awaited promise settles in the end and the event loop runs every
\* continuation that is ready
SpecLive == InitLive /\ [][NextLive]_vars /\ WF_vars(Settles)


\* ------------------------------------------------------------ claims
Summarizing(p) == proc[p].op = "summarize"
\* the number of chunks of call p's article
N(p) == NumChunks(proc[p].content)
\* call p has returned a summary and tags (no error-encoded result)
Succeeded(p) ==
    /\ Summarizing(p)
    /\ proc[p].pc = "returned"
    /\ proc[p].result = <<SummaryResult>>
\* call p has failed: it threw or returned an error-encoded result
Failed(p) ==
    /\ Summarizing(p)
    /\ \/ proc[p].pc = "thrown"
       \/ proc[p].pc = "returned" /\ proc[p].result # <<SummaryResult>>
CountOf(s, x) == Cardinality({k \in 1 .. Len(s) : s[k] = x})
Terminal == {"ready", "error"}
ChunkCall(k) == [kind |-> "chunk", i |-> k]
CombineCall == [kind |-> "combine", i |-> 0]
TagsCall == [kind |-> "tags", i |-> 0]

\* C1: in every reachable state at most one initialization is in flight: at
\* most one call is between setting isInitializing and the end of the
\* try/finally of initializeLLM.
C1_AtMostOneInitInFlight ==
    Cardinality({p \in CallIds : proc[p].pc = "creating"}) <= 1

\* C2: a call of initializeLLM made while an initialization was in progress
\* resolves to the session that initialization gave its own caller, and
\* starts no initialization itself.
C2_WaitersGetTheSession ==
    \A p \in CallIds :
        (proc[p].waitedOn # NULL /\ proc[p].pc # "waiting") =>
            /\ proc[p].myInit = NULL
            /\ proc[p].sessionMade # NULL => proc[p].llm = proc[p].sessionMade

\* C3: when engine creation fails inside initializeLLM, the worker of that
\* initialization is terminated, chat = null, worker = null, isInitializing =
\* false, the failure is thrown, and a call of initializeLLM made in that
\* state starts a fresh initialization (new worker, no polling, no handle
\* returned).
C3_InitFailureResets ==
    [][\A p \in CallIds :
          /\ (proc[p].pc = "creating" /\ proc'[p].pc \in {"catching", "thrown"}) =>
                /\ chat' = NULL /\ worker' = NULL /\ ~isInitializing'
                /\ proc[p].myInit \notin alive'
                /\ proc'[p].failure = <<"init", "other">>
                /\ proc'[p].llm = NULL
          /\ (/\ proc[p].pc = "idle" /\ proc'[p].pc # "idle"
              /\ proc'[p].op = "acquire"
                    \/ (proc'[p].op = "summarize"
                          /\ TextLen(proc'[p].content) <= MAX_ARTICLE_LENGTH)
              /\ chat = NULL /\ worker = NULL /\ ~isInitializing) =>
                /\ proc'[p].pc = "creating"
                /\ created' = created + 1
                /\ proc'[p].myInit = created'
                /\ worker' = created' /\ created' \in alive'
                /\ isInitializing']_vars

\* witness of C3: an initialization failed and a later call is initializing
C3_Witness ==
    \E p, q \in CallIds :
        /\ proc[p].pc = "catching" /\ proc[p].failure = <<"init", "other">>
        /\ proc[q].pc = "creating" /\ proc[q].myInit > proc[p].myInit

\* C4: an article longer than 30,000 characters is answered with a result
\* whose summary and tags begin with "Error:", one error status, no
\* initialization and no inference call; one of exactly 30,000 characters is
\* not rejected.
C4_LengthGate ==
    \A p \in CallIds : Summarizing(p) =>
        /\ TextLen(proc[p].content) > MAX_ARTICLE_LENGTH =>
              /\ proc[p].pc = "returned"
              /\ Len(proc[p].result) = 1
              /\ Head(proc[p].result[1].summary) = "Error: "
              /\ Head(proc[p].result[1].tags) = "Error: "
              /\ proc[p].status = <<"error">>
              /\ proc[p].calls = <<>>
              /\ proc[p].myInit = NULL /\ proc[p].waitedOn = NULL
              /\ proc[p].llm = NULL
        /\ TextLen(proc[p].content) = MAX_ARTICLE_LENGTH =>
              /\ proc[p].failure # <<"gate", "too-long">>
              /\ proc[p].result # <<TooLongResult>>
              /\ proc[p].pc # "returned" \/ proc[p].calls # <<>>

\* witness of C4: a call with an article of more than 30,000 characters has
\* returned while a call with one of exactly 30,000 is summarizing
C4_Witness ==
    \E p, q \in CallIds :
        /\ Summarizing(p) /\ TextLen(proc[p].content) > MAX_ARTICLE_LENGTH
        /\ proc[p].pc = "returned"
        /\ Summarizing(q) /\ TextLen(proc[q].content) = MAX_ARTICLE_LENGTH
        /\ proc[q].pc = "chunk"

\* C5: a call whose article makes N > 1 chunks and whose inference calls all
\* succeed has issued exactly N + 2 inference calls: chunk 1 .. chunk N in
\* order, then the combine call, then the tag call.
C5_CallsOfManyChunks ==
    \A p \in CallIds : (Succeeded(p) /\ N(p) > 1) =>
        /\ Len(proc[p].calls) = N(p) + 2
        /\ \A k \in 1 .. N(p) : proc[p].calls[k] = ChunkCall(k)
        /\ proc[p].calls[N(p) + 1] = CombineCall
        /\ proc[p].calls[N(p) + 2] = TagsCall

\* witness of C5: a call with a three-chunk article has succeeded
C5_Witness == \E p \in CallIds : Succeeded(p) /\ N(p) = 3

\* C6 as stated: with N > 1 chunks and success the progress callback fires
\* exactly 2N times, with strictly increasing current values ending at 2N.
C6_ProgressFires2N ==
    \A p \in CallIds : (Succeeded(p) /\ N(p) > 1) =>
        /\ Len(proc[p].progress) = 2 * N(p)
        /\ \A k \in 1 .. Len(proc[p].progress) - 1 :
              proc[p].progress[k][1] < proc[p].progress[k + 1][1]
        /\ proc[p].progress[Len(proc[p].progress)][1] = 2 * N(p)

\* C6 amended: with N > 1 chunks and success the progress callback fires
\* exactly N + 1 times, with the current values 1, .., N, 2N (strictly
\* increasing, ending at 2N) and the total 2N.
C6_ProgressFiresNPlus1 ==
    \A p \in CallIds : (Succeeded(p) /\ N(p) > 1) =>
        /\ Len(proc[p].progress) = N(p) + 1
        /\ \A k \in 1 .. N(p) : proc[p].progress[k] = <<k, 2 * N(p)>>
        /\ proc[p].progress[N(p) + 1] = <<2 * N(p), 2 * N(p)>>
        /\ \A k \in 1 .. N(p) :
              proc[p].progress[k][1] < proc[p].progress[k + 1][1]

\* witness of C6: a three-chunk call has succeeded with four progress updates
C6_Witness ==
    \E p \in CallIds :
        Succeeded(p) /\ N(p) = 3 /\ Len(proc[p].progress) = 4

\* C7: a call whose article makes exactly one chunk issues, when its calls
\* succeed, exactly two inference calls (the chunk summary, the tags) and at
\* no time a combine call.
C7_CallsOfOneChunk ==
    \A p \in CallIds : (Summarizing(p) /\ N(p) = 1) =>
        /\ \A k \in 1 .. Len(proc[p].calls) : proc[p].calls[k] # CombineCall
        /\ Succeeded(p) => proc[p].calls = <<ChunkCall(1), TagsCall>>

\* witness of C7: a one-chunk call has succeeded
C7_Witness == \E p \in CallIds : Succeeded(p) /\ N(p) = 1

\* C8: a call of summarizeArticle that failed has emitted exactly one
\* error status.
C8_OneErrorStatusPerFailure ==
    \A p \in CallIds : Failed(p) => CountOf(proc[p].status, "error") = 1

C10_CapacityStops ==
    \A p \in CallIds : proc[p].failure = <<"chunk", "capacity">> =>
        /\ proc[p].pc = "returned"
        /\ proc[p].result = <<ContextResult>>
        /\ proc[p].result[1].tags = <<"Error: ", "Context window exceeded">>
        /\ proc[p].result[1].tags # TooLongResult.tags
        /\ Len(proc[p].calls) = proc[p].i + 1
        /\ Len(proc[p].calls) <= N(p)
        /\ \A k \in 1 .. Len(proc[p].calls) : proc[p].calls[k] = ChunkCall(k)

\* witness of C10: the first chunk of a three-chunk article hit the
\* capacity error
C10_Witness ==
    \E p \in CallIds :
        /\ proc[p].failure = <<"chunk", "capacity">>
        /\ N(p) = 3 /\ Len(proc[p].calls) = 1

\* no session: the state cleanup() leaves
NoSession == chat = NULL /\ worker = NULL /\ ~isInitializing

\* call p is entered in this step
Entered(p) == proc[p].pc = "idle" /\ proc'[p].pc # "idle"

\* C11: when a chunk call fails with an error other than the capacity error,
\* the call throws with chat = null, worker = null, isInitializing = false
\* and the worker terminated; that state lasts until the next call is made,
\* and a summarizeArticle call made in it starts a fresh initialization.
C11_ChunkFailureTearsDown ==
    [][\A p \in CallIds :
          /\ (proc[p].pc = "chunk" /\ proc'[p].failure = <<"chunk", "other">>) =>
                /\ proc'[p].pc = "thrown"
                /\ chat' = NULL /\ worker' = NULL /\ ~isInitializing'
                /\ proc[p].llm \notin alive'
          /\ (NoSession /\ callsMade' = callsMade) =>
                (chat' = NULL /\ worker' = NULL /\ ~isInitializing')
          /\ (/\ NoSession /\ Entered(p) /\ proc'[p].op = "summarize"
              /\ ~TooLong(proc'[p].content)) =>
                /\ proc'[p].pc = "creating"
                /\ proc'[p].myInit = created + 1
                /\ proc'[p].status = <<"loading">>
                /\ proc'[p].llm = NULL]_vars

\* witness of C11: the second chunk call of a call that made the session
\* itself failed with another error and the call has thrown
C11_Witness ==
    \E p \in CallIds :
        /\ proc[p].pc = "thrown" /\ proc[p].failure = <<"chunk", "other">>
        /\ proc[p].i = 1 /\ proc[p].llm # NULL /\ proc[p].myInit = proc[p].llm
        /\ NoSession

\* C12: at most one worker is alive at any time: a worker is created only
\* when no worker made before it is still alive.
C12_AtMostOneSession ==
    /\ Cardinality(alive) <= 1
    /\ alive \subseteq {worker}
    /\ \A p, q \in CallIds :
          (p # q /\ proc[p].pc = "creating" /\ proc[q].pc = "creating") =>
              ~(proc[p].myInit \in alive /\ proc[q].myInit \in alive)

\* witness of C12: a second worker was made after cleanup, while the call
\* that made the first is still waiting for its engine
C12_Witness ==
    \E p, q \in CallIds :
        /\ proc[p].pc = "creating" /\ proc[q].pc = "creating"
        /\ proc[p].myInit < proc[q].myInit
        /\ alive = {proc[q].myInit}

\* C14: cleanup() called in any state returns and leaves chat = null,
\* worker = null, isInitializing = false and no worker alive; called in the
\* state cleanup() leaves, it changes nothing.
C14_CleanupIdempotent ==
    [][\A p \in CallIds :
          (Entered(p) /\ proc'[p].op = "cleanup") =>
              /\ proc'[p].pc = "returned"
              /\ chat' = NULL /\ worker' = NULL /\ ~isInitializing'
              /\ alive' = {}
              /\ (NoSession /\ alive = {}) => UNCHANGED shared]_vars

\* witness of C14: cleanup() has returned though no worker was ever made
C14_Witness ==
    \E p \in CallIds :
        proc[p].op = "cleanup" /\ proc[p].pc = "returned" /\ created = 0

\* call p has passed the length gate of summarizeArticle
PassedGate(p) ==
    /\ Summarizing(p)
    /\ proc[p].pc # "idle"
    /\ proc[p].failure # <<"gate", "too-long">>

\* C13: as long as no cleanup() has run and no initialization has failed,
\* exactly one initialization is ever started, by the first call that passes
\* the length gate; every call made once the session exists has its handle at
\* once, and a call made while that initialization is in progress waits for
\* it and gets the same handle; neither emits a loading or a ready status.
C13_CreatedOnceThenReused ==
    /\ [](~disturbed =>
            /\ created <= 1
            /\ \A p \in CallIds :
                  /\ proc[p].myInit \in {NULL, 1}
                  /\ proc[p].llm \in {NULL, 1}
                  /\ chat \in {NULL, 1}
                  /\ (PassedGate(p) /\ proc[p].myInit = NULL) =>
                        /\ \A k \in 1 .. Len(proc[p].status) :
                              proc[p].status[k] \notin {"loading", "ready"}
                        /\ proc[p].pc # "creating"
                        /\ proc[p].pc # "waiting" => proc[p].llm = 1
                        /\ proc[p].waitedOn = NULL =>
                              proc[p].pc # "waiting" /\ proc[p].llm = 1)
    /\ [][\A p \in CallIds :
            (/\ ~disturbed' /\ Entered(p) /\ proc'[p].op = "summarize"
             /\ ~TooLong(proc'[p].content)) =>
                /\ created = 0 =>
                      /\ created' = 1 /\ proc'[p].myInit = 1
                      /\ proc'[p].pc = "creating"
                /\ created = 1 =>
                      /\ created' = 1 /\ proc'[p].myInit = NULL
                      /\ chat # NULL =>
                            /\ proc'[p].llm = chat
                            /\ proc'[p].pc = "chunk"
                            /\ proc'[p].status = <<>>]_vars

\* witness of C13: the third call made has succeeded with the session the
\* first call made, without any status
C13_Witness ==
    \E p \in CallIds :
        /\ ~disturbed /\ callsMade = 3 /\ p = 3
        /\ Succeeded(p)
        /\ proc[p].myInit = NULL /\ proc[p].waitedOn = NULL
        /\ proc[p].llm = 1 /\ proc[p].status = <<>>

\* the order of the phases of one summarizeArticle call
PhaseEdges ==
    {<<"START", "LENGTH_CHECK">>,
     <<"LENGTH_CHECK", "REJECT">>, <<"LENGTH_CHECK", "SESSION_READY">>,
     <<"SESSION_READY", "CHUNKING">>,
     <<"CHUNKING", "PER_CHUNK_SUMMARY">>, <<"CHUNKING", "COMBINE">>,
     <<"CHUNKING", "TAG_EXTRACTION">>,
     <<"PER_CHUNK_SUMMARY", "PER_CHUNK_SUMMARY">>,
     <<"PER_CHUNK_SUMMARY", "COMBINE">>,
     <<"PER_CHUNK_SUMMARY", "TAG_EXTRACTION">>,
     <<"COMBINE", "TAG_EXTRACTION">>,
     <<"TAG_EXTRACTION", "DONE">>}
\* the steps after SESSION_READY
AfterSessionReady ==
    {"CHUNKING", "PER_CHUNK_SUMMARY", "COMBINE", "TAG_EXTRACTION"}
\* the phases of call p follow the order, ERROR being entered from one of
\* the phases `from` only; no phase follows REJECT, DONE or ERROR
InPhaseOrder(p, from) ==
    LET tr == proc[p].trace
    IN  /\ tr # <<>> => tr[1] = "START"
        /\ \A k \in 1 .. Len(tr) - 1 :
              \/ <<tr[k], tr[k + 1]>> \in PhaseEdges
              \/ tr[k + 1] = "ERROR" /\ tr[k] \in from

\* C20 as stated: the phases of a call follow the order START, LENGTH_CHECK,
\* REJECT or SESSION_READY, CHUNKING, PER_CHUNK_SUMMARY*, COMBINE?,
\* TAG_EXTRACTION, DONE; ERROR is absorbing and entered only from a step
\* after SESSION_READY.
C20_PhaseOrder ==
    \A p \in CallIds : Summarizing(p) => InPhaseOrder(p, AfterSessionReady)

\* C20 amended: the same order, ERROR absorbing, and ERROR entered only
\* from LENGTH_CHECK (acquiring the session failed, SESSION_READY was never
\* reached) or from a step after SESSION_READY.
C20_PhaseOrderWithInitFailure ==
    \A p \in CallIds :
        Summarizing(p) =>
            /\ InPhaseOrder(p, AfterSessionReady \cup {"LENGTH_CHECK"})
            /\ proc[p].pc = "thrown" =>
                  proc[p].trace[Len(proc[p].trace)] = "ERROR"
            /\ Succeeded(p) => proc[p].trace[Len(proc[p].trace)] = "DONE"

\* witness of C20: a call whose initialization failed has thrown, having
\* entered ERROR from LENGTH_CHECK
C20_Witness ==
    \E p \in CallIds :
        /\ proc[p].pc = "thrown"
        /\ proc[p].trace = <<"START", "LENGTH_CHECK", "ERROR">>

\* chunkText has returned
Chunked == chunkPc = "returned"

\* C15: for a text of at most 10,000 characters chunkText returns exactly
\* one chunk, the text itself, white space at its ends included.
C15_ShortTextIsOneChunk ==
    (Chunked /\ TextLen(text) <= DEFAULT_MAX_CHUNK_SIZE) => chunks = <<text>>

\* witness of C15: a text of exactly 10,000 characters that begins with
\* white space came back as its one chunk
C15_Witness ==
    /\ Chunked
    /\ TextLen(text) = DEFAULT_MAX_CHUNK_SIZE
    /\ text[1].c = "s"
    /\ chunks = <<text>>

RECURSIVE Joined(_)
\* the chunks put together in order
Joined(cs) == IF cs = <<>> THEN <<>> ELSE Concat(Head(cs), Joined(Tail(cs)))

RECURSIVE NonWhite(_)
\* a text without its white space
NonWhite(t) ==
    IF t = <<>> THEN <<>>
    ELSE IF Head(t).c = "s" THEN NonWhite(Tail(t))
    ELSE Concat(<<Head(t)>>, NonWhite(Tail(t)))

\* C16: chunkText returns at least one chunk, and the chunks put together in
\* order are, white space aside, the text: no other character is dropped,
\* duplicated or moved.
C16_ChunksReconstructText ==
    Chunked =>
        /\ chunks # <<>>
        /\ NonWhite(Joined(chunks)) = NonWhite(text)

\* C17: for a text of more than 10,000 characters every chunk has at most
\* 10,000 characters or is one sentence of more than 10,000 (trimmed), and
\* every such sentence is a chunk of its own.
C17_ChunkSizes ==
    (Chunked /\ TextLen(text) > DEFAULT_MAX_CHUNK_SIZE) =>
        LET sentences == Sentences(text)
            Long(j) == TextLen(sentences[j]) > DEFAULT_MAX_CHUNK_SIZE
        IN  /\ \A k \in 1 .. Len(chunks) :
                  \/ TextLen(chunks[k]) <= DEFAULT_MAX_CHUNK_SIZE
                  \/ \E j \in 1 .. Len(sentences) :
                        Long(j) /\ chunks[k] = Trim(sentences[j])
            /\ \A j \in 1 .. Len(sentences) :
                  Long(j) => \E k \in 1 .. Len(chunks) :
                                 chunks[k] = Trim(sentences[j])

\* witness of C17: a sentence that fits, then one of more than 10,000
\* characters: two chunks, the second oversized
C17_Witness ==
    /\ Chunked
    /\ Len(chunks) = 2
    /\ TextLen(chunks[1]) <= DEFAULT_MAX_CHUNK_SIZE
    /\ TextLen(chunks[2]) > DEFAULT_MAX_CHUNK_SIZE
    /\ Len(Sentences(text)) = 2

\* C18: at most one summarizeArticle call made by the Process Articles
\* button is in progress at any time.
C18_OneCallAtATime ==
    Cardinality({h \in ClickIds : handler[h].pc = "summarizing"}) <= 1

\* the rows of h's copy that have content
WithContent(h) ==
    {r \in 1 .. Len(handler[h].data) : handler[h].data[r].content # NoContent}

\* C19: a summarizeArticle call that throws marks its row, and no other,
\* with "Error: Processing failed" in Summary and Tags; the batch goes on:
\* every row with content up to the current one has been passed to
\* summarizeArticle, in order, all of them once the batch has ended; the
\* step that ends the batch leaves isSummarizing false.
C19_ThrowMarksOneRow ==
    /\ [](\A h \in ClickIds :
            LET hr == handler[h]
            IN  /\ \A r \in hr.threw :
                      /\ hr.data[r].Summary = ProcessingFailed
                      /\ hr.data[r].Tags = ProcessingFailed
                /\ hr.errorCount = Cardinality(hr.threw)
                /\ {hr.calls[k] : k \in 1 .. Len(hr.calls)}
                      = {r \in WithContent(h) : r <= hr.i}
                /\ \A j, k \in 1 .. Len(hr.calls) :
                      j < k => hr.calls[j] < hr.calls[k]
                /\ hr.threw \subseteq WithContent(h)
                /\ (hr.pc = "ended" /\ hr.data # <<>>) =>
                      hr.i = Len(hr.data) + 1)
    /\ [][\A h \in ClickIds :
            /\ (/\ handler[h].pc = "summarizing"
                /\ handler'[h].threw # handler[h].threw) =>
                  /\ handler'[h].threw = handler[h].threw \cup {handler[h].i}
                  /\ gridData' = handler'[h].data
                  /\ \A r \in 1 .. Len(handler[h].data) :
                        r # handler[h].i =>
                            handler'[h].data[r] = handler[h].data[r]
                  /\ \A r \in WithContent(h) :
                        r > handler[h].i => handler'[h].pc = "summarizing"
            /\ (handler[h].pc = "summarizing" /\ handler'[h].pc = "ended") =>
                  ~isSummarizing']_vars

\* witness of C19: the call for the first of two rows threw, the batch has
\* ended with the second row summarized
C19_Witness ==
    \E h \in ClickIds :
        /\ handler[h].pc = "ended"
        /\ Len(handler[h].data) = 2
        /\ handler[h].threw = {1}
        /\ handler[h].calls = <<1, 2>>
        /\ handler[h].data[1].Summary = ProcessingFailed
        /\ handler[h].data[2].Summary = SummaryResult.summary
        /\ ~isSummarizing

\* C21: the progress callback for chunk i is invoked after the inference
\* call for chunk i has completed: a call has made no more progress reports
\* from its loop than it has chunk summaries.
C21_ProgressAfterChunk ==
    \A p \in CallIds : Summarizing(p) =>
        \A j \in 1 .. Len(proc[p].progress) :
            j <= N(p) => j <= Len(proc[p].summaries)

\* C22: on every path the current values passed to the progress callback
\* of one call are strictly increasing and never above the total, and the
\* total is 2N in every invocation.
C22_ProgressMonotone ==
    \A p \in CallIds : Summarizing(p) =>
        LET pr == proc[p].progress
        IN  /\ \A j \in 1 .. Len(pr) :
                  /\ pr[j][2] = 2 * N(p)
                  /\ pr[j][1] >= 1
                  /\ pr[j][1] <= pr[j][2]
            /\ \A j \in 1 .. Len(pr) - 1 : pr[j][1] < pr[j + 1][1]

\* witness of C22: the second chunk call of a three-chunk article hit the
\* capacity error after two progress reports
C22_Witness ==
    \E p \in CallIds :
        /\ proc[p].failure = <<"chunk", "capacity">>
        /\ proc[p].progress = <<<<1, 6>>, <<2, 6>>>>

RECURSIVE JoinRange(_, _, _)
\* the sentences a .. b of ss put together
JoinRange(ss, a, b) ==
    IF a > b THEN <<>> ELSE Concat(ss[a], JoinRange(ss, a + 1, b))

\* the chunks cs are the sentences ss cut after the sentences in ends (the
\* last sentence among them), each group trimmed
CutAt(cs, ss, ends) ==
    /\ Len(cs) = Cardinality(ends)
    /\ \A e \in ends :
          LET first == 1 + Cardinality({x \in 1 .. Len(ss) :
                                           \E c \in ends : c < e /\ x <= c})
              k == Cardinality({c \in ends : c <= e})
          IN  cs[k] = Trim(JoinRange(ss, first, e))

PartialSummaries(n) == [k \in 1 .. n |-> Trim(ChunkResponse(k))]

C26_ChatImpliesWorker ==
    chat # NULL => (worker # NULL /\ worker = chat /\ worker \in alive)

\* witness of C26: a session stands on the second worker created, after a
\* cleanup or a failed initialization took the first one away
C26_Witness ==
    /\ chat # NULL /\ worker = chat
    /\ created >= 2
    /\ disturbed

\* C27: a capacity error of the combine call or of the tag call is a hard
\* failure: the call throws and returns no result, error-encoded or other;
\* the session has been torn down and one error status has been emitted,
\* as the last status.
C27_LateCapacityErrorThrows ==
    \A p \in CallIds :
        (/\ Summarizing(p)
         /\ proc[p].failure \in {<<"combine", "capacity">>,
                                 <<"tags", "capacity">>}) =>
            /\ proc[p].pc = "thrown"
            /\ proc[p].result = <<>>
            /\ NoSession
            /\ proc[p].llm \notin alive
            /\ CountOf(proc[p].status, "error") = 1
            /\ proc[p].status[Len(proc[p].status)] = "error"
            /\ proc[p].trace[Len(proc[p].trace)] = "ERROR"

\* witness of C27: a call whose chunk calls all succeeded has thrown on the
\* capacity error of its combine call
C27_Witness ==
    \E p \in CallIds :
        /\ Summarizing(p)
        /\ proc[p].failure = <<"combine", "capacity">>
        /\ proc[p].pc = "thrown"
        /\ Len(proc[p].summaries) = N(p)
        /\ proc[p].calls[Len(proc[p].calls)] = CombineCall

\* a second witness of C27: the tag call of a one-chunk call met the
\* capacity error
C27_WitnessTags ==
    \E p \in CallIds :
        /\ Summarizing(p)
        /\ proc[p].failure = <<"tags", "capacity">>
        /\ proc[p].pc = "thrown"
        /\ N(p) = 1

\* call p ends in this step with an error-encoded result
EndsErrorEncoded(p) ==
    /\ Summarizing(p) \/ proc[p].pc = "idle"
    /\ proc[p].pc # "returned"
    /\ proc'[p].pc = "returned"
    /\ proc'[p].result \in {<<TooLongResult>>, <<ContextResult>>}

\* C28: the step in which a summarizeArticle call ends with an
\* error-encoded result (length gate or capacity error of a chunk call)
\* changes nothing of the shared session state and runs no cleanup; the
\* record of the ended call is dropped without effect on it; and a
\* summarizeArticle call entered while a session exists, its article past
\* the length gate, is handed that session with no worker created and no
\* loading status.
C28_ErrorResultKeepsSession ==
    [][\A p \in CallIds :
          /\ EndsErrorEncoded(p) => UNCHANGED <<shared, created, disturbed>>
          /\ proc[p].pc \in Ended => UNCHANGED <<shared, created, disturbed>>
          /\ (/\ Entered(p)
              /\ proc'[p].op = "summarize"
              /\ chat # NULL
              /\ proc'[p].result # <<TooLongResult>>) =>
                 /\ proc'[p].llm = chat
                 /\ proc'[p].pc = "chunk"
                 /\ proc'[p].status = <<>>
                 /\ proc'[p].myInit = NULL
                 /\ UNCHANGED <<shared, created, disturbed>>]_vars

\* witness of C28: a call has returned the error-encoded result of a
\* capacity error of a chunk call, and the session it used still stands
C28_Witness ==
    \E p \in CallIds :
        /\ Summarizing(p)
        /\ proc[p].pc = "returned"
        /\ proc[p].result = <<ContextResult>>
        /\ chat # NULL /\ chat = proc[p].llm /\ worker = chat
        /\ worker \in alive

\* a second witness of C28: the third call runs on the first worker created,
\* no cleanup having run
C28_WitnessReuse ==
    \E p \in CallIds :
        /\ Summarizing(p) /\ proc[p].pc = "chunk"
        /\ p = 3 /\ created = 1 /\ ~disturbed
        /\ proc[p].llm = chat /\ chat = 1
        /\ proc[p].status = <<>>

\* the Summary texts of the error-encoded results
ErrorEncoded == {TooLongResult.summary, ContextResult.summary}

\* the rows of h's copy that hold what summarizeArticle returned
Stored(h) ==
    {r \in 1 .. Len(handler[h].data) :
        handler[h].data[r].Summary \in {res.summary : res \in Results}}

\* C30: at the end of a batch errorCount is the number of rows whose
\* summarizeArticle call threw, which are the rows marked "Error: Processing
\* failed"; the rows that hold a returned result, error-encoded or not, are
\* the other rows with content and are not counted; a row without content
\* is passed to no call and keeps its Summary and Tags.
C30_ErrorCountIsThrows ==
    \A h \in ClickIds :
        LET hr == handler[h]
        IN  /\ \A r \in 1 .. Len(hr.data) :
                  hr.data[r].content = NoContent =>
                      /\ \A k \in 1 .. Len(hr.calls) : hr.calls[k] # r
                      /\ hr.data[r].Summary = <<>>
                      /\ hr.data[r].Tags = <<>>
                      /\ gridData[r] = Row(NoContent)
            /\ (hr.pc = "ended" /\ hr.data # <<>>) =>
                  /\ hr.errorCount = Cardinality(hr.threw)
                  /\ hr.threw = {r \in 1 .. Len(hr.data) :
                                    hr.data[r].Summary = ProcessingFailed}
                  /\ Stored(h) = WithContent(h) \ hr.threw
                  /\ hr.errorCount + Cardinality(Stored(h))
                        = Cardinality(WithContent(h))
                  /\ Len(hr.calls) = Cardinality(WithContent(h))

\* witness of C30: a batch of two rows has ended with one error counted: the
\* first row holds an error-encoded result, the call for the second threw
C30_Witness ==
    \E h \in ClickIds :
        /\ handler[h].pc = "ended"
        /\ Len(handler[h].data) = 2
        /\ handler[h].data[1].Summary \in ErrorEncoded
        /\ handler[h].threw = {2}
        /\ handler[h].errorCount = 1

\* a second witness of C30: the first row has no content and was skipped
C30_WitnessSkipped ==
    \E h \in ClickIds :
        /\ handler[h].pc = "ended"
        /\ Len(handler[h].data) = 2
        /\ handler[h].data[1] = Row(NoContent)
        /\ handler[h].calls = <<2>>
        /\ handler[h].errorCount = 1

\* call p is a summarizeArticle call that has been entered and has not ended
Running(p) == Summarizing(p) /\ proc[p].pc \notin Ended

\* no call but p holds an await
Alone(p) ==
    \A q \in CallIds : q # p => proc[q].pc \in Ended \cup {"idle", "gone"}

\* C29: when the engine creation and every inference call settle in the
\* end and the batch is the only caller, every summarizeArticle call ends,
\* returning a result or throwing; when it has ended isInitializing is
\* false (the flag is up only while a call awaits its engine creation); and
\* the batch, once started, reaches its end with every row passed.
C29_CallsTerminate ==
    /\ \A p \in CallIds :
          Running(p) ~> (proc[p].pc \in {"returned", "thrown"})
    /\ [](\A p \in CallIds :
            (Summarizing(p) /\ proc[p].pc \in Ended) =>
                (~isInitializing /\ Alone(p)))
    /\ [](isInitializing => \E q \in CallIds : proc[q].pc = "creating")
    /\ (handler[1].pc \in {"checking", "summarizing"})
          ~> (handler[1].pc = "ended" /\ NoCall /\ ~isInitializing)

\* witness of C29: the batch has ended after two calls, the first of which
\* created the session and the second of which threw
C29_Witness ==
    /\ handler[1].pc = "ended"
    /\ handler[1].calls = <<1, 2>>
    /\ handler[1].threw = {2}
    /\ handler[1].data[1].Summary = SummaryResult.summary
    /\ callsMade = 2 /\ created = 1
    /\ NoCall /\ ~isInitializing

\* a second witness of C29: a call of the batch that went through three
\* chunk calls, the combine call and the tag call has returned
C29_WitnessCall ==
    \E p \in CallIds :
        /\ Succeeded(p) /\ N(p) = 3
        /\ handler[1].pc = "summarizing"
        /\ ~isInitializing

====
